---- MODULE Spec2Model ----
(***************************************************************************)
(* Connection/room registry and broadcast engine of the chat relay         *)
(* (src/app/main.py: ConnectionManager and websocket_endpoint).            *)
(*                                                                         *)
(* Every websocket connection is served by its own asyncio task running    *)
(* websocket_endpoint.  Tasks interleave only at `await`, so one action of *)
(* the model is the code a task runs from the completion of one await to   *)
(* the next await (or to the end of the handler).                          *)
(*                                                                         *)
(* active_connections is a Python dict that broadcast_to_room iterates     *)
(* live (no copy) across awaits.  The dict is therefore modelled the way   *)
(* the interpreter keeps it: an insertion-ordered entry array in which a   *)
(* deletion leaves a dummy slot, an insertion of a new key appends (after  *)
(* compacting the array when it is full), and an items() iterator that     *)
(* remembers its position, the dict size at creation and the number of     *)
(* items it still expects.                                                 *)
(***************************************************************************)
EXTENDS Integers, Sequences, FiniteSets

\* ---- bounds -------------------------------------------------------------
NConn == 3                 \* connections opened on an empty registry
NUsers == 3
NRooms == 2
MaxFails == 1              \* sends that raise while the delivery log is kept
MaxMsgs == 2               \* relays reaching a send while the delivery log is kept

Conns == 1..(NConn + 1)    \* websocket objects, one handler task each
Users == 1..NUsers         \* user_id path parameters
Rooms == 1..NRooms         \* room_id path parameters

None == 0                  \* Python None (also: not yet bound)

\* ---- the dict active_connections ----------------------------------------
DUMMY == [key |-> None, val |-> None]

\* smallest power of two >= n, at least 8 (the interpreter's key-table sizes)
RECURSIVE KeySizeFrom(_, _)
KeySizeFrom(s, n) == IF s >= n THEN s ELSE KeySizeFrom(2 * s, n)
KeySize(n) == KeySizeFrom(8, n)

\* entries a key table of the given size holds before it is rebuilt
Usable(size) == (2 * size) \div 3

EmptyDict == [entries |-> <<>>, size |-> KeySize(0)]

Live(d) == {i \in 1..Len(d.entries) : d.entries[i] # DUMMY}
DictKeys(d) == {d.entries[i].key : i \in Live(d)}
DictLen(d) == Cardinality(Live(d))
Index(d, k) == CHOOSE i \in Live(d) : d.entries[i].key = k
DictGet(d, k) == IF k \in DictKeys(d) THEN d.entries[Index(d, k)].val ELSE None

Compact(es) == SelectSeq(es, LAMBDA e : e # DUMMY)

\* d[k] = v
DictSet(d, k, v) ==
    IF k \in DictKeys(d)
    THEN [d EXCEPT !.entries[Index(d, k)].val = v]
    ELSE IF Len(d.entries) < Usable(d.size)
         THEN [d EXCEPT !.entries = Append(@, [key |-> k, val |-> v])]
         ELSE [entries |-> Append(Compact(d.entries), [key |-> k, val |-> v]),
               size |-> KeySize(3 * DictLen(d))]

\* del d[k]   (k present)
DictDel(d, k) == [d EXCEPT !.entries[Index(d, k)] = DUMMY]

\* iter(d.items())
NoIter == [pos |-> 0, used |-> 0, len |-> 0]
DictIter(d) == [pos |-> 0, used |-> DictLen(d), len |-> DictLen(d)]

\* next(it): status "item" with the (key, value) read now, "stop"
\* (StopIteration) or "error" (RuntimeError: dictionary changed size /
\* keys changed during iteration)
IterNext(d, it) ==
    IF it.used # DictLen(d)
    THEN [status |-> "error", it |-> it, item |-> DUMMY]
    ELSE LET rest == {i \in Live(d) : i > it.pos} IN
         IF rest = {}
         THEN [status |-> "stop", it |-> it, item |-> DUMMY]
         ELSE IF it.len = 0
              THEN [status |-> "error", it |-> it, item |-> DUMMY]
              ELSE LET i == CHOOSE j \in rest : \A m \in rest : j <= m IN
                   [status |-> "item",
                    it |-> [it EXCEPT !.pos = i, !.len = @ - 1],
                    item |-> d.entries[i]]

\* ---- the dict user_rooms -------------------------------------------------
\* a function from the user_ids present to their room_id
RoomGet(ur, u) == IF u \in DOMAIN ur THEN ur[u] ELSE None
RoomSet(ur, u, r) == [x \in (DOMAIN ur) \cup {u} |-> IF x = u THEN r ELSE ur[x]]
RoomDel(ur, u) == [x \in (DOMAIN ur) \ {u} |-> ur[x]]

\* the registry: both maps of the ConnectionManager
Registry(ac, ur) == [active_connections |-> ac, user_rooms |-> ur]

\* connect that leaves an identity already present alone
connect_keep_first(reg, websocket, uid, rid) ==
    IF uid \in DictKeys(reg.active_connections)
    THEN reg
    ELSE Registry(DictSet(reg.active_connections, uid, websocket),
                  RoomSet(reg.user_rooms, uid, rid))

\* ConnectionManager.connect, after the accept has returned
connect(reg, websocket, uid, rid) ==
    Registry(DictSet(reg.active_connections, uid, websocket),
             RoomSet(reg.user_rooms, uid, rid))

\* disconnect that forgets user_rooms
disconnect_conn_only(reg, uid) ==
    Registry(IF uid \in DictKeys(reg.active_connections)
             THEN DictDel(reg.active_connections, uid)
             ELSE reg.active_connections,
             reg.user_rooms)

\* disconnect whose second `if` is an `elif`
disconnect_elif(reg, uid) ==
    IF uid \in DictKeys(reg.active_connections)
    THEN Registry(DictDel(reg.active_connections, uid), reg.user_rooms)
    ELSE Registry(reg.active_connections,
                  IF uid \in DOMAIN reg.user_rooms
                  THEN RoomDel(reg.user_rooms, uid)
                  ELSE reg.user_rooms)

\* ConnectionManager.disconnect
disconnect(reg, uid) ==
    Registry(IF uid \in DictKeys(reg.active_connections)
             THEN DictDel(reg.active_connections, uid)
             ELSE reg.active_connections,
             IF uid \in DOMAIN reg.user_rooms
             THEN RoomDel(reg.user_rooms, uid)
             ELSE reg.user_rooms)

\* the clean-up loop of broadcast_to_room
RECURSIVE reap(_, _)
reap(reg, disconnected_users) ==
    IF disconnected_users = <<>> THEN reg
    ELSE reap(disconnect(reg, Head(disconnected_users)), Tail(disconnected_users))

\* get_stats
get_stats(reg) ==
    [active_connections |-> DictLen(reg.active_connections),
     active_rooms |-> Cardinality({reg.user_rooms[u] : u \in DOMAIN reg.user_rooms}),
     users |-> DOMAIN reg.user_rooms,
     rooms |-> {reg.user_rooms[u] : u \in DOMAIN reg.user_rooms}]

\* ---- events --------------------------------------------------------------
NoMsg == [type |-> "none", user_id |-> None, room_id |-> None, content |-> "" ]
join_message(uid, rid) ==
    [type |-> "user_joined", user_id |-> uid, room_id |-> rid, content |-> ""]
chat_message(uid, rid, content) ==
    [type |-> "message", user_id |-> uid, room_id |-> rid, content |-> content]
leave_message(uid, rid) ==
    [type |-> "user_left", user_id |-> uid, room_id |-> rid, content |-> ""]

\* ---- inbound payloads ---------------------------------------------------
\* what `await websocket.receive_text()` can produce: the texts a client can
\* send, or Closed when the client has gone (WebSocketDisconnect is raised)
Closed == "<closed>"
Texts == {"{\"type\":\"message\",\"content\":\"hello\"}",
          "{\"type\":\"message\"}",
          "{\"type\":\"typing\"}",
          "{\"content\":\"hello\"}",
          "not json"}

\* json.loads: the decoded object, or Undecodable when it raises; Missing
\* stands for a key the object does not have (subscripting it raises KeyError)
Missing == "<missing>"
Undecodable == [kind |-> "error"]
Object(type, content) == [kind |-> "object", type |-> type, content |-> content]
json_loads(data) ==
    CASE data = "{\"type\":\"message\",\"content\":\"hello\"}" -> Object("message", "hello")
      [] data = "{\"type\":\"message\"}" -> Object("message", Missing)
      [] data = "{\"type\":\"typing\"}" -> Object("typing", Missing)
      [] data = "{\"content\":\"hello\"}" -> Object(Missing, "hello")
      [] OTHER -> Undecodable

\* ---- state ---------------------------------------------------------------
VARIABLES
    active_connections,   \* manager.active_connections: user_id -> websocket
    user_rooms,           \* manager.user_rooms: user_id -> room_id
    pc,                   \* per connection: where its handler task is
    user_id,              \* per connection: the user_id path parameter
    room_id,              \* per connection: the room_id path parameter
    bcast,                \* per connection: the frame of its broadcast_to_room call
    accepted,             \* the websockets whose accept() has returned
    leaves,               \* per connection: user_left broadcasts it has issued
    ended,                \* the broadcast calls the latest step has brought to an end
    log                   \* what each websocket has been sent, in the order sent

vars ==
    <<active_connections, user_rooms, pc, user_id, room_id, bcast, accepted, leaves, ended,
      log>>

\* pc values:
\*   "idle"     the endpoint has not yet come back from `await websocket.accept()`
\*   "send"     suspended in `await websocket.send_text(message)` inside a broadcast
\*   "receive"  suspended in `await websocket.receive_text()`
\*   "done"     the handler returned
\*   "crashed"  an exception left the handler (raised inside the finally block)

NoTarget == [user |-> None, ws |-> None]
NoBcast ==
    [message |-> NoMsg, room_id |-> None, exclude_user |-> None,
     it |-> NoIter, target |-> NoTarget, disconnected_users |-> <<>>,
     members |-> {}, attempts |-> <<>>]

reg == Registry(active_connections, user_rooms)

\* ---- broadcast_to_room ---------------------------------------------------
\* a filter that forgets the room
Selected_any_room(ur, uid, rid, exclude_user) ==
    uid # exclude_user

\* the filter of the loop body
Selected(ur, uid, rid, exclude_user) ==
    RoomGet(ur, uid) = rid /\ uid # exclude_user

\* the frame of a fresh call; members and attempts are bookkeeping of the
\* model: whom the filter selects when the call starts, and the sends that
\* have come back
NewBcast(r, message, rid, exclude_user) ==
    [message |-> message, room_id |-> rid, exclude_user |-> exclude_user,
     it |-> DictIter(r.active_connections), target |-> NoTarget,
     disconnected_users |-> <<>>,
     members |-> {u \in DictKeys(r.active_connections) :
                    Selected(r.user_rooms, u, rid, exclude_user)},
     attempts |-> <<>>]

\* run the for loop from its next() until the call awaits a send
\* ("await"), finishes the clean-up and returns ("return"), or the iterator
\* raises ("raise")
RECURSIVE Loop(_, _)
Loop(r, b) ==
    LET n == IterNext(r.active_connections, b.it) IN
    CASE n.status = "error" ->
            [outcome |-> "raise", reg |-> r, b |-> b]
      [] n.status = "stop" ->
            [outcome |-> "return", reg |-> reap(r, b.disconnected_users), b |-> b]
      [] OTHER ->
            IF Selected(r.user_rooms, n.item.key, b.room_id, b.exclude_user)
            THEN [outcome |-> "await", reg |-> r,
                  b |-> [b EXCEPT !.it = n.it,
                                  !.target = [user |-> n.item.key, ws |-> n.item.val]]]
            ELSE Loop(r, [b EXCEPT !.it = n.it])

broadcast_to_room(r, message, rid, exclude_user) ==
    Loop(r, NewBcast(r, message, rid, exclude_user))

\* ---- websocket_endpoint --------------------------------------------------
\* what is kept of a call that has ended: its arguments, whom the filter
\* selected when it started, the sends it made and how it ended
Call(res) ==
    [message |-> res.b.message, room_id |-> res.b.room_id,
     exclude_user |-> res.b.exclude_user, members |-> res.b.members,
     attempts |-> res.b.attempts, outcome |-> res.outcome]
Ended(res) == IF res.outcome = "await" THEN << >> ELSE <<Call(res)>>

\* a finally block that starts the leave broadcast on the registry as it
\* is before the disconnect
Finally_announce_first(r, uid, rid) ==
    LET res == broadcast_to_room(r, leave_message(uid, rid), rid, None)
    IN IF res.outcome = "await"
       THEN [reg |-> disconnect(res.reg, uid), b |-> res.b, left |-> 1, pc |-> "send",
             ended |-> << >>]
       ELSE [reg |-> disconnect(res.reg, uid), b |-> NoBcast, left |-> 1, pc |-> "done",
             ended |-> Ended(res)]

\* the finally block: disconnect, then the leave broadcast up to its first
\* await (a fresh iterator cannot raise before the first send)
Finally(r, uid, rid) ==
    LET res == broadcast_to_room(disconnect(r, uid), leave_message(uid, rid), rid, None)
    IN IF res.outcome = "await"
       THEN [reg |-> res.reg, b |-> res.b, left |-> 1, pc |-> "send", ended |-> << >>]
       ELSE [reg |-> res.reg, b |-> NoBcast, left |-> 1, pc |-> "done",
             ended |-> Ended(res)]

\* a clean-up that goes on to announce the departure of the first identity
\* it has reaped
Resume_announce_reaped(res, uid, rid) ==
    LET leaving == res.b.message.type = "user_left"
        back == IF leaving THEN "done" ELSE "receive"
    IN
    CASE res.outcome = "await" ->
            [reg |-> res.reg, b |-> res.b, left |-> 0, pc |-> "send", ended |-> << >>]
      [] res.outcome = "return" ->
            IF res.b.disconnected_users = << >>
            THEN [reg |-> res.reg, b |-> NoBcast, left |-> 0, pc |-> back,
                  ended |-> Ended(res)]
            ELSE LET n == broadcast_to_room(
                              res.reg,
                              leave_message(Head(res.b.disconnected_users), res.b.room_id),
                              res.b.room_id, None)
                 IN IF n.outcome = "await"
                    THEN [reg |-> n.reg, b |-> n.b, left |-> 0, pc |-> "send",
                          ended |-> Ended(res)]
                    ELSE [reg |-> n.reg, b |-> NoBcast, left |-> 0, pc |-> back,
                          ended |-> Ended(res) \o Ended(n)]
      [] OTHER ->
            IF leaving
            THEN [reg |-> res.reg, b |-> NoBcast, left |-> 0, pc |-> "crashed",
                  ended |-> Ended(res)]
            ELSE LET f == Finally(res.reg, uid, rid)
                 IN [f EXCEPT !.ended = Ended(res) \o @]

\* a handler that announces its join again once a relay of it has returned
Resume_join_after_relay(res, uid, rid) ==
    LET leaving == res.b.message.type = "user_left" IN
    CASE res.outcome = "await" ->
            [reg |-> res.reg, b |-> res.b, left |-> 0, pc |-> "send", ended |-> << >>]
      [] res.outcome = "return" ->
            IF res.b.message.type = "message"
            THEN LET n == broadcast_to_room(res.reg, join_message(uid, rid), rid, uid)
                 IN IF n.outcome = "await"
                    THEN [reg |-> n.reg, b |-> n.b, left |-> 0, pc |-> "send",
                          ended |-> Ended(res)]
                    ELSE [reg |-> n.reg, b |-> NoBcast, left |-> 0, pc |-> "receive",
                          ended |-> Ended(res) \o Ended(n)]
            ELSE [reg |-> res.reg, b |-> NoBcast, left |-> 0,
                  pc |-> IF leaving THEN "done" ELSE "receive", ended |-> Ended(res)]
      [] OTHER ->
            IF leaving
            THEN [reg |-> res.reg, b |-> NoBcast, left |-> 0, pc |-> "crashed",
                  ended |-> Ended(res)]
            ELSE LET f == Finally(res.reg, uid, rid)
                 IN [f EXCEPT !.ended = Ended(res) \o @]

\* where the handler goes when the broadcast call it made awaits, returns or
\* raises
Resume(res, uid, rid) ==
    LET leaving == res.b.message.type = "user_left" IN
    CASE res.outcome = "await" ->
            [reg |-> res.reg, b |-> res.b, left |-> 0, pc |-> "send", ended |-> << >>]
      [] res.outcome = "return" ->
            [reg |-> res.reg, b |-> NoBcast, left |-> 0,
             pc |-> IF leaving THEN "done" ELSE "receive", ended |-> Ended(res)]
      [] OTHER ->
            IF leaving
            THEN [reg |-> res.reg, b |-> NoBcast, left |-> 0, pc |-> "crashed",
                  ended |-> Ended(res)]
            ELSE LET f == Finally(res.reg, uid, rid)
                 IN [f EXCEPT !.ended = Ended(res) \o @]

\* manager.connect after the accept, then the join broadcast
Accepted(r, websocket, uid, rid) ==
    Resume(broadcast_to_room(connect(r, websocket, uid, rid),
                             join_message(uid, rid), rid, uid),
           uid, rid)

\* a loop body that relays whatever carries a type
Inbound_relay_any_type(r, data, uid, rid) ==
    LET message_data == json_loads(data) IN
    IF data = Closed \/ message_data = Undecodable
       \/ message_data.type = Missing
       \/ (message_data.type = "message" /\ message_data.content = Missing)
    THEN Finally(r, uid, rid)
    ELSE Resume(broadcast_to_room(r, chat_message(uid, rid, message_data.content),
                                  rid, uid),
                uid, rid)

\* one pass of the `while True` body on what receive_text produced
Inbound(r, data, uid, rid) ==
    LET message_data == json_loads(data) IN
    IF data = Closed \/ message_data = Undecodable
       \/ message_data.type = Missing
       \/ (message_data.type = "message" /\ message_data.content = Missing)
    THEN Finally(r, uid, rid)
    ELSE IF message_data.type = "message"
         THEN Resume(broadcast_to_room(r, chat_message(uid, rid, message_data.content),
                                       rid, uid),
                     uid, rid)
         ELSE [reg |-> r, b |-> NoBcast, left |-> 0, pc |-> "receive", ended |-> << >>]

\* ---- the delivery log ------------------------------------------------------
\* A history of the sends that went through, kept by the specifications that
\* start it (on).  A broadcast call that reaches a send gets the next number;
\* calls[n] says which handler made call n, with which event, for which
\* room, and which calls were still running when it was made (open);
\* cur[c] is the number of the call handler c is in (0: none); inbox[w] lists
\* the calls whose event websocket w was sent, oldest first; raised counts
\* the sends that raised.
NoLog ==
    [on |-> FALSE, calls |-> << >>, cur |-> [c \in Conns |-> 0],
     inbox |-> [w \in Conns |-> << >>], raised |-> 0]
StartLog == [NoLog EXCEPT !.on = TRUE]

\* send_text puts the event on websocket w behind everything it was sent before
put_first(inbox, w, n) == [inbox EXCEPT ![w] = <<n>> \o @]
send_text(inbox, w, n) == [inbox EXCEPT ![w] = Append(@, n)]

\* the log after the step of handler c that leads to st; sent is the
\* websocket whose send has just returned without raising (None: no such;
\* if c was in a send, that send has raised)
Logged(l, c, st, sent) ==
    LET l1 == IF sent = None
              THEN IF pc[c] = "send" THEN [l EXCEPT !.raised = @ + 1] ELSE l
              ELSE [l EXCEPT !.inbox = send_text(@, sent, l.cur[c])]
        n == Len(l.calls) + 1
    IN IF st.pc = "send" /\ st.b.attempts = << >>
       THEN [l1 EXCEPT
               !.calls = Append(@, [conn |-> c, type |-> st.b.message.type,
                                    room |-> st.b.room_id,
                                    open |-> {l.cur[k] : k \in {j \in Conns \ {c} :
                                                                    pc[j] = "send"}}]),
               !.cur[c] = n]
       ELSE IF st.pc = "send" THEN l1
            ELSE [l1 EXCEPT !.cur[c] = 0]

Log(c, st, sent) == log' = IF log.on THEN Logged(log, c, st, sent) ELSE log

Goto(c, st) ==
    /\ active_connections' = st.reg.active_connections
    /\ user_rooms' = st.reg.user_rooms
    /\ pc' = [pc EXCEPT ![c] = st.pc]
    /\ bcast' = [bcast EXCEPT ![c] = st.b]
    /\ leaves' = [leaves EXCEPT ![c] = @ + st.left]
    /\ ended' = st.ended

Init ==
    /\ active_connections = EmptyDict
    /\ user_rooms = << >>
    /\ pc = [c \in Conns |-> "idle"]
    /\ user_id = [c \in Conns |-> None]
    /\ room_id = [c \in Conns |-> None]
    /\ bcast = [c \in Conns |-> NoBcast]
    /\ accepted = {}
    /\ leaves = [c \in Conns |-> 0]
    /\ ended = << >>
    /\ log = NoLog

\* Connections are numbered in the order their handlers start, and user and
\* room identifiers (opaque strings in the program) in the order they first
\* appear in a path.
NextToStart(c) == pc[c] = "idle" /\ \A k \in Conns : k < c => pc[k] # "idle"
NextName(x, used) == \A y \in 1..(x - 1) : y \in used
Opens(c, uid, rid) ==
    /\ NextToStart(c)
    /\ NextName(uid, {user_id[k] : k \in Conns})
    /\ NextName(rid, {room_id[k] : k \in Conns})
    /\ user_id' = [user_id EXCEPT ![c] = uid]
    /\ room_id' = [room_id EXCEPT ![c] = rid]

\* a client opens /ws/{uid}/{rid} and the accept succeeds
Connect(c, uid, rid) ==
    /\ Opens(c, uid, rid)
    /\ accepted' = accepted \cup {c}
    /\ LET st == Accepted(reg, c, uid, rid) IN Goto(c, st) /\ Log(c, st, None)

\* a client opens /ws/{uid}/{rid} and `await websocket.accept()` raises: the
\* outer except logs it and the finally block runs
AcceptFails(c, uid, rid) ==
    /\ Opens(c, uid, rid)
    /\ LET st == Finally(reg, uid, rid) IN Goto(c, st) /\ Log(c, st, None)
    /\ UNCHANGED accepted

\* `await websocket.send_text(message)` of c's broadcast comes back: it
\* returned (ok) or raised; the loop goes on
SendReturns(c, ok) ==
    /\ pc[c] = "send"
    /\ LET b == bcast[c]
           b1 == [b EXCEPT
                    !.attempts = Append(@, [user |-> b.target.user,
                                            ws |-> b.target.ws, ok |-> ok]),
                    !.disconnected_users =
                        IF ok THEN @ ELSE Append(@, b.target.user)]
           st == Resume(Loop(reg, b1), user_id[c], room_id[c])
       IN Goto(c, st) /\ Log(c, st, IF ok THEN b.target.ws ELSE None)
    /\ UNCHANGED <<user_id, room_id, accepted>>

\* `await websocket.receive_text()` comes back with a text or raises
\* WebSocketDisconnect
Receive(c, data) ==
    /\ pc[c] = "receive"
    /\ LET st == Inbound(reg, data, user_id[c], room_id[c])
       IN Goto(c, st) /\ Log(c, st, None)
    /\ UNCHANGED <<user_id, room_id, accepted>>

Runs(inputs) ==
    \/ \E c \in Conns, ok \in BOOLEAN : SendReturns(c, ok)
    \/ \E c \in Conns, data \in inputs : Receive(c, data)

\* NConn connections on a registry that starts empty
Next ==
    \/ \E c \in 1..NConn, uid \in Users, rid \in Rooms : Connect(c, uid, rid)
    \/ \E c \in 1..NConn, uid \in Users, rid \in Rooms : AcceptFails(c, uid, rid)
    \/ Runs(Texts \cup {Closed})

Spec == Init /\ [][Next]_vars

\* A populated room: the first NConn connections have joined room 1 one
\* after the other, each join broadcast has returned and every handler
\* waits for its client; one more connection is still to come, and the
\* clients go away one by one.
RoomTexts == {Closed}
Joined(n) == IF n <= NUsers THEN n ELSE NUsers
RECURSIVE Populated(_)
Populated(n) ==
    IF n = 0 THEN Registry(EmptyDict, << >>)
    ELSE connect(Populated(n - 1), n, Joined(n), 1)

InitRoom ==
    /\ active_connections = Populated(NConn).active_connections
    /\ user_rooms = Populated(NConn).user_rooms
    /\ pc = [c \in Conns |-> IF c <= NConn THEN "receive" ELSE "idle"]
    /\ user_id = [c \in Conns |-> IF c <= NConn THEN Joined(c) ELSE None]
    /\ room_id = [c \in Conns |-> IF c <= NConn THEN 1 ELSE None]
    /\ bcast = [c \in Conns |-> NoBcast]
    /\ accepted = 1..NConn
    /\ leaves = [c \in Conns |-> 0]
    /\ ended = << >>
    /\ log = NoLog

NextRoom ==
    \/ \E uid \in Users, rid \in Rooms : Connect(NConn + 1, uid, rid)
    \/ \E uid \in Users, rid \in Rooms : AcceptFails(NConn + 1, uid, rid)
    \/ Runs(RoomTexts)

SpecRoom == InitRoom /\ [][NextRoom]_vars

\* a client that talks and goes away
ChatTexts == {"{\"type\":\"message\",\"content\":\"hello\"}", Closed}

\* The populated room when the client of one websocket has stopped reading:
\* a send_text to that websocket never comes back (the code sets no
\* timeout); as the event loop runs the tasks that are ready, the other
\* sends do not all stay pending for ever.
Blocked == {1}               \* the websocket of the first member
Unblocked(c) == \E ok \in BOOLEAN : bcast[c].target.ws \notin Blocked /\ SendReturns(c, ok)

NextStall ==
    \/ \E c \in Conns : Unblocked(c)
    \/ \E c \in Conns, data \in ChatTexts : Receive(c, data)

SpecStall ==
    InitRoom /\ [][NextStall]_vars /\ WF_vars(\E c \in Conns : Unblocked(c))

\* A conversation with the delivery log started: all connections but the
\* last have joined room 1 and wait for their clients; the last one joins,
\* the clients talk (at most MaxMsgs relays reach a send) and go away, and
\* at most MaxFails sends raise.
Relays(l) == Cardinality({n \in DOMAIN l.calls : l.calls[n].type = "message"})

InitChat ==
    /\ active_connections = Populated(NConn - 1).active_connections
    /\ user_rooms = Populated(NConn - 1).user_rooms
    /\ pc = [c \in Conns |-> IF c < NConn THEN "receive" ELSE "idle"]
    /\ user_id = [c \in Conns |-> IF c < NConn THEN Joined(c) ELSE None]
    /\ room_id = [c \in Conns |-> IF c < NConn THEN 1 ELSE None]
    /\ bcast = [c \in Conns |-> NoBcast]
    /\ accepted = 1..(NConn - 1)
    /\ leaves = [c \in Conns |-> 0]
    /\ ended = << >>
    /\ log = StartLog

NextChat ==
    \/ \E uid \in Users, rid \in Rooms : Connect(NConn, uid, rid)
    \/ \E c \in Conns, ok \in BOOLEAN :
          /\ ~ok => log.raised < MaxFails
          /\ SendReturns(c, ok)
    \/ \E c \in Conns, data \in ChatTexts :
          /\ data # Closed => Relays(log) < MaxMsgs
          /\ Receive(c, data)

SpecChat == InitChat /\ [][NextChat]_vars

\* ---- type invariant ------------------------------------------------------
TypeOK ==
    /\ DictKeys(active_connections) \subseteq Users
    /\ DOMAIN user_rooms \subseteq Users
    /\ pc \in [Conns -> {"idle", "send", "receive", "done", "crashed"}]
    /\ accepted \subseteq Conns
    /\ leaves \in [Conns -> 0..1]
    /\ Len(ended) <= 2
    /\ log.on \in BOOLEAN
    /\ \A w \in Conns : \A i \in DOMAIN log.inbox[w] : log.inbox[w][i] \in DOMAIN log.calls

\* the populated room, a state that the empty registry leads to
RoomPopulated ==
    /\ active_connections = Populated(NConn).active_connections
    /\ user_rooms = Populated(NConn).user_rooms
    /\ \A c \in 1..NConn : pc[c] = "receive" /\ user_id[c] = Joined(c) /\ room_id[c] = 1
    /\ bcast = [c \in Conns |-> NoBcast]
    /\ accepted = 1..NConn
    /\ leaves = [c \in Conns |-> 0]

\* the room in which the conversation starts, a state that the empty
\* registry leads to
ChatStarts ==
    /\ active_connections = Populated(NConn - 1).active_connections
    /\ user_rooms = Populated(NConn - 1).user_rooms
    /\ \A c \in 1..(NConn - 1) :
          pc[c] = "receive" /\ user_id[c] = Joined(c) /\ room_id[c] = 1
    /\ pc[NConn] = "idle"
    /\ bcast = [c \in Conns |-> NoBcast]
    /\ accepted = 1..(NConn - 1)
    /\ leaves = [c \in Conns |-> 0]

\* ---- what the properties speak about -------------------------------------
EndedCalls == {ended[i] : i \in DOMAIN ended}
OfType(type) == {e \in EndedCalls : e.message.type = type}

\* identities a call tried to send to, those whose send raised, and the
\* sends to u that went through
Attempted(e) == {e.attempts[i].user : i \in DOMAIN e.attempts}
Failed(e) == {e.attempts[i].user : i \in {j \in DOMAIN e.attempts : ~e.attempts[j].ok}}
Received(e) == {e.attempts[i].user : i \in {j \in DOMAIN e.attempts : e.attempts[j].ok}}
Deliveries(e, u) == {i \in DOMAIN e.attempts : e.attempts[i].user = u /\ e.attempts[i].ok}

\* members of the room when the call started that are still registered in
\* it when the call ends and to whom no send has raised
Owed(e) ==
    {u \in e.members : RoomGet(user_rooms, u) = e.room_id /\ u \notin Failed(e)}

\* c has called send_text in this step
StartsSend(c) == pc'[c] = "send" /\ bcast'[c] # bcast[c]

\* k is accepted, nobody else has used its identity, and the identity is no
\* longer registered although k's handler still waits for its client: a
\* broadcast has reaped it
Reaped(k) ==
    /\ pc[k] = "receive"
    /\ user_id[k] \notin DictKeys(active_connections)
    /\ \A j \in Conns \ {k} : user_id[j] # user_id[k]

\* ---- C1 ------------------------------------------------------------------
\* C1: in every reachable state the identities that are keys of
\* active_connections are exactly the identities that are keys of user_rooms.
C1_MembershipConsistent == DictKeys(active_connections) = DOMAIN user_rooms

\* connects, a disconnect and a reaping have all happened and somebody is
\* still registered
C1_Witness ==
    /\ DictKeys(active_connections) # {}
    /\ \E c \in accepted : leaves[c] = 1
    /\ \E k \in accepted : Reaped(k)

\* ---- C2 ------------------------------------------------------------------
\* C2: when the join broadcast of identity A in room R is over, every other
\* identity that was and still is registered in R and to whom no send has
\* raised has received user_joined exactly once, and nothing was sent to A.
C2_JoinReachesEveryOtherMember ==
    \A e \in OfType("user_joined") :
        /\ \A u \in Owed(e) : Cardinality(Deliveries(e, u)) = 1
        /\ e.message.user_id \notin Attempted(e)

\* ---- C3 ------------------------------------------------------------------
\* C3: whenever a relay of a message into room R1 calls send_text, the
\* identity it sends to is at that moment mapped to R1, the room of the sender.
C3_RoomIsolation ==
    [][\A c \in Conns :
          (StartsSend(c) /\ bcast'[c].message.type = "message")
          => /\ RoomGet(user_rooms', bcast'[c].target.user) = bcast'[c].room_id
             /\ bcast'[c].room_id = room_id[c]
             /\ bcast'[c].message.room_id = room_id[c]]_vars

\* a relay is sending while some identity is registered in another room
C3_Witness ==
    \E c \in Conns :
        /\ pc[c] = "send" /\ bcast[c].message.type = "message"
        /\ \E u \in DOMAIN user_rooms : user_rooms[u] # bcast[c].room_id

\* ---- C4 ------------------------------------------------------------------
\* C4: when a broadcast in which a send has raised is over, every member of
\* the room that is still registered in it has been tried; and if the call
\* has returned, the identities whose send raised are in neither map, those
\* who received are still registered in the room, and the users that stats
\* reports among the members are exactly the receivers.
C4_FailureIsIsolated ==
    \A e \in EndedCalls :
        Failed(e) # {} =>
            /\ \A u \in e.members :
                  RoomGet(user_rooms, u) = e.room_id => u \in Attempted(e)
            /\ e.outcome = "return" =>
                  /\ Failed(e) \cap (DictKeys(active_connections) \cup DOMAIN user_rooms) = {}
                  /\ \A u \in Received(e) \ Failed(e) : RoomGet(user_rooms, u) = e.room_id
                  /\ get_stats(reg).users \cap e.members = Received(e) \ Failed(e)

\* ---- C5 ------------------------------------------------------------------
\* C5: when the relay of a message of sender A in room R is over, every other
\* identity that was and still is registered in R and to whom no send has
\* raised has received it exactly once; the event names A and the content A
\* sent, and nothing was sent to A.
C5_RelayReachesEveryOtherMember ==
    \A e \in OfType("message") :
        /\ \A u \in Owed(e) : Cardinality(Deliveries(e, u)) = 1
        /\ e.message.user_id = e.exclude_user
        /\ e.message.content = "hello"
        /\ e.exclude_user \notin Attempted(e)

\* ---- C6 ------------------------------------------------------------------
\* C6: no broadcast is aborted by what other connection tasks do to the
\* registry while it is suspended: every call returns, and it has delivered
\* to every member of the room at its start that is still registered there
\* and whose send did not raise.
C6_BroadcastOnSnapshot ==
    \A e \in EndedCalls :
        /\ e.outcome = "return"
        /\ \A u \in Owed(e) : Deliveries(e, u) # {}

\* ---- C7 ------------------------------------------------------------------
\* C7: on every reachable registry, unregistering an identity twice gives
\* the registry that unregistering it once gives, and unregistering an
\* identity that is absent gives the registry back unchanged.
C7_UnregisterIdempotent ==
    \A u \in Users :
        /\ disconnect(disconnect(reg, u), u) = disconnect(reg, u)
        /\ u \notin DictKeys(disconnect(reg, u).active_connections)
        /\ u \notin DOMAIN disconnect(reg, u).user_rooms
        /\ (u \notin DictKeys(active_connections) /\ u \notin DOMAIN user_rooms)
              => disconnect(reg, u) = reg

\* two handlers of the same identity have both run their finally block, the
\* second one on an identity the first had already removed, while another
\* identity stays registered
C7_Witness ==
    \E c1, c2 \in accepted :
        /\ c1 # c2 /\ user_id[c1] = user_id[c2]
        /\ leaves[c1] = 1 /\ leaves[c2] = 1
        /\ user_id[c1] \notin DictKeys(active_connections)
        /\ DictKeys(active_connections) # {}

\* ---- C8 ------------------------------------------------------------------
\* C8: a connect under an identity that is already registered leaves one
\* entry for it, holding the new websocket and the new room, and every send
\* a broadcast starts goes to the websocket registered at that moment (so
\* never to a replaced one).
C8_ReplaceOnConnect ==
    [][\A c \in Conns :
          /\ (c \in accepted' \ accepted /\ user_id'[c] \in DictKeys(active_connections))
             => /\ DictGet(active_connections', user_id'[c]) = c
                /\ RoomGet(user_rooms', user_id'[c]) = room_id'[c]
                /\ DictLen(active_connections') = DictLen(active_connections)
                /\ DictKeys(active_connections') = DictKeys(active_connections)
          /\ StartsSend(c)
             => /\ bcast'[c].target.user \in DictKeys(active_connections')
                /\ DictGet(active_connections', bcast'[c].target.user) = bcast'[c].target.ws]_vars

\* an identity has been replaced by a later connection while its first
\* handler is still waiting, and a broadcast is sending to the new websocket
C8_Witness ==
    \E c1, c2 \in accepted :
        /\ c1 < c2 /\ user_id[c1] = user_id[c2]
        /\ pc[c1] = "receive"
        /\ DictGet(active_connections, user_id[c2]) = c2
        /\ \E k \in Conns : pc[k] = "send" /\ bcast[k].target.ws = c2

\* ---- C9 ------------------------------------------------------------------
\* C9: when a handler leaves `await receive_text()` otherwise than to relay a
\* message, then in that same step its identity is removed from both maps and
\* its one user_left broadcast is started on the registry as it is after the
\* removal; the handler never waits for a payload again.
C9_LoopEndUnregistersThenLeaves ==
    [][\A c \in Conns :
          LET leave == leave_message(user_id[c], room_id[c])
              room == {u \in DictKeys(active_connections') :
                          RoomGet(user_rooms', u) = room_id[c]}
          IN
          /\ (/\ pc[c] = "receive" /\ pc'[c] # "receive"
              /\ ~(pc'[c] = "send" /\ bcast'[c].message.type = "message"))
             => /\ user_id[c] \notin DictKeys(active_connections')
                /\ user_id[c] \notin DOMAIN user_rooms'
                /\ leaves[c] = 0 /\ leaves'[c] = 1
                /\ \/ /\ pc'[c] = "send"
                      /\ bcast'[c].message = leave
                      /\ bcast'[c].room_id = room_id[c]
                      /\ bcast'[c].members = room
                      /\ ended' = << >>
                   \/ /\ pc'[c] = "done"
                      /\ room = {}
                      /\ Len(ended') = 1
                      /\ ended'[1].message = leave
                      /\ ended'[1].members = {}
          /\ leaves[c] = 1 => (pc'[c] # "receive" /\ leaves'[c] = 1)]_vars

\* a handler whose loop has ended is sending its user_left to a member that
\* is still registered
C9_Witness ==
    \E c \in accepted :
        /\ leaves[c] = 1 /\ pc[c] = "send"
        /\ bcast[c].message = leave_message(user_id[c], room_id[c])
        /\ bcast[c].target.user \in DictKeys(active_connections)

\* ---- C10 -----------------------------------------------------------------
\* C10: no user_left event for identity X is sent with success to a
\* websocket picked from the entry registered under X.
C10_NoLeaveToSelf ==
    /\ \A c \in Conns :
          bcast[c].message.type = "user_left"
          => bcast[c].message.user_id \notin Received(bcast[c])
    /\ \A e \in OfType("user_left") :
          e.message.user_id \notin Received(e)

\* ---- C11 -----------------------------------------------------------------
\* the sends of websocket h that raised in a call
FailedHandles(e) == {e.attempts[i].ws : i \in {j \in DOMAIN e.attempts : ~e.attempts[j].ok}}

\* C11: whenever the entry that maps an identity to websocket h leaves the
\* registry, the step is either the finally block of h's own handler or the
\* clean-up of a broadcast in which a send to h itself has raised.
C11_EntryRemovedOnlyForItsHandle ==
    [][\A u \in Users :
          (u \in DictKeys(active_connections) /\ u \notin DictKeys(active_connections'))
          => LET h == DictGet(active_connections, u) IN
             \/ leaves'[h] = leaves[h] + 1
             \/ \E i \in DOMAIN ended' :
                   ended'[i].outcome = "return" /\ h \in FailedHandles(ended'[i])]_vars

\* ---- C12 -----------------------------------------------------------------
\* C12: in the step in which a broadcast returns after a send of it has
\* raised, the identities whose send raised leave both maps and nothing else
\* happens: every other entry stays as it is, no handler issues a user_left,
\* no other call is made and no send is started.
C12_ReapOnlyUnregisters ==
    [][\A i \in DOMAIN ended' :
          LET e == ended'[i] IN
          (e.outcome = "return" /\ Failed(e) # {})
          => /\ DictKeys(active_connections') = DictKeys(active_connections) \ Failed(e)
             /\ DOMAIN user_rooms' = DOMAIN user_rooms \ Failed(e)
             /\ \A u \in DOMAIN user_rooms' :
                   /\ DictGet(active_connections', u) = DictGet(active_connections, u)
                   /\ user_rooms'[u] = user_rooms[u]
             /\ leaves' = leaves
             /\ Len(ended') = 1
             /\ \A c \in Conns :
                   pc'[c] = "send" => (pc[c] = "send" /\ bcast'[c] = bcast[c])]_vars

\* a broadcast has just returned after reaping an identity whose handler
\* still waits for its client and has announced nothing
C12_Witness ==
    \E e \in EndedCalls :
        /\ e.outcome = "return"
        /\ \E k \in accepted :
              /\ user_id[k] \in Failed(e)
              /\ pc[k] = "receive" /\ leaves[k] = 0
              /\ user_id[k] \notin DictKeys(active_connections)

\* ---- C13 -----------------------------------------------------------------
\* call a had come to its end when call b was made
Before(a, b) == a < b /\ a \notin log.calls[b].open

\* C13: if a broadcast to a room has ended before another broadcast to the
\* same room is made, every websocket that is sent both events is sent the
\* event of the first call first.
C13_RoomOrder ==
    \A w \in Conns :
        \A i, j \in DOMAIN log.inbox[w] :
            LET a == log.inbox[w][i]
                b == log.inbox[w][j]
            IN (log.calls[a].room = log.calls[b].room /\ Before(a, b)) => i < j

\* a websocket has been sent two messages relayed one after the other by the
\* same handler, and a websocket has been sent the events of two calls that
\* ran at the same time in the order opposite to that of the calls
C13_Witness ==
    /\ \E w \in Conns :
          \E i, j \in DOMAIN log.inbox[w] :
              LET a == log.calls[log.inbox[w][i]]
                  b == log.calls[log.inbox[w][j]]
              IN /\ i < j /\ log.inbox[w][i] # log.inbox[w][j]
                 /\ a.type = "message" /\ b.type = "message" /\ a.conn = b.conn
    /\ \E w \in Conns :
          \E i, j \in DOMAIN log.inbox[w] : i < j /\ log.inbox[w][i] > log.inbox[w][j]

\* ---- C14 -----------------------------------------------------------------
\* handler c awaits a send to a websocket whose send never completes
StalledOn(c) == pc[c] = "send" /\ bcast[c].target.ws \in Blocked

\* C14: a broadcast that awaits a send to a websocket whose send never
\* completes gets past it in the end: it goes on to the next member of the
\* room, or the call is over and the handler is back from it.
C14_BlockedMemberDoesNotStall ==
    \A c \in Conns : StalledOn(c) ~> ~StalledOn(c)

\* ---- C15 -----------------------------------------------------------------
\* the step that leaves everything as it is and goes back to receive_text
Ignored(r) == [reg |-> r, b |-> NoBcast, left |-> 0, pc |-> "receive", ended |-> << >>]

\* the texts that json.loads decodes and that are no "message"
NonMessages == {data \in Texts : /\ json_loads(data) # Undecodable
                                 /\ json_loads(data).type # "message"}

C16_RelayOnlyForRegisteredHandle ==
    [][\A c \in Conns :
          (pc[c] = "receive" /\ pc'[c] = "send" /\ bcast'[c].message.type = "message")
          => /\ DictGet(active_connections, user_id[c]) = c
             /\ RoomGet(user_rooms, user_id[c]) = room_id[c]]_vars

\* ---- C17 -----------------------------------------------------------------
\* C17: the join broadcast of a connection is over before the connection
\* relays a message, and every websocket that is sent both the user_joined
\* of a connection and a message relayed by it is sent the user_joined first.
C17_JoinBeforeMessages ==
    /\ \A n, m \in DOMAIN log.calls :
          (/\ log.calls[n].conn = log.calls[m].conn
           /\ log.calls[n].type = "user_joined" /\ log.calls[m].type = "message")
          => Before(n, m)
    /\ \A w \in Conns :
          \A i, j \in DOMAIN log.inbox[w] :
              LET a == log.calls[log.inbox[w][i]]
                  b == log.calls[log.inbox[w][j]]
              IN (a.conn = b.conn /\ a.type = "user_joined" /\ b.type = "message")
                 => i < j

\* a websocket has been sent the user_joined of a connection and then a
\* message that connection relayed
C17_Witness ==
    \E w \in Conns :
        \E i, j \in DOMAIN log.inbox[w] :
            LET a == log.calls[log.inbox[w][i]]
                b == log.calls[log.inbox[w][j]]
            IN i < j /\ a.conn = b.conn /\ a.type = "user_joined" /\ b.type = "message"

\* ---- C18 -----------------------------------------------------------------
\* C18: no handler is left by an exception, and every user_left broadcast
\* that is over has returned, after the leaving identity's own handler
\* unregistered it, having delivered to every member of the room at its
\* start that is still registered there and whose send did not raise.
C18_CleanupCompletes ==
    /\ \A c \in Conns : pc[c] # "crashed"
    /\ \A e \in OfType("user_left") :
          /\ e.outcome = "return"
          /\ \A u \in Owed(e) : Deliveries(e, u) # {}

====
